---- MODULE Spec2Model ----
(***************************************************************************)
(* minechat client: the listener (listen-minechat.py) and the two sender   *)
(* scripts (write_minechat.py, write-minechat.py) as one state machine.    *)
(* One run of the module is one run of one script; the server, the file    *)
(* system and the operator (cancellation) are the environment.             *)
(*                                                                         *)
(* Text (str) is a sequence of one-character strings.  In that alphabet    *)
(* "X" stands for a byte sequence that is not valid UTF-8 and "S" for a    *)
(* lone surrogate code point (what json.loads makes of "\ud800").          *)
(* Handshake lines sent by the server are kept as whole strings and are    *)
(* given their meaning by json_loads.                                      *)
(*                                                                         *)
(* CodecSpec is a second state machine over the same variables: it applies *)
(* submit_message to every text of a bounded set and reads the first line  *)
(* of the result back the way the listener reads a line.                   *)
(***************************************************************************)
EXTENDS Integers, Sequences, FiniteSets, TLC

VARIABLES
    script,     \* which script this run executes
    pc,         \* position of the script's single task
    args,       \* parsed command line / environment
    credFile,   \* the credentials file on disk
    persistError, \* save_credentials reported an OSError
    token,      \* local `token` of the sender's main / get_token
    nickname,   \* local `nickname` of main in write-minechat.py
    message,    \* local `message` of register / authorize after the last read
    regResult,  \* outcome of register: "none", "Success", "Failure", "Raised"
    authResult, \* outcome of authorize: "none", "Authorized", "Rejected", "Failed"
    outcome,    \* what the sender run ended with
    conn,       \* the connection opened last
    retired,    \* final states of the connections opened before `conn`
    opened,     \* connections opened by the sender run
    durable,    \* history file: records that reached the disk
    fileBuf,    \* history file: records held in the file object's buffer
    fileOpen,   \* the history file object is open
    received,   \* lines read from the current listener connection
    connBase,   \* number of records written before the current connection
    recvTotal,  \* lines received during the whole listener run
    elapsed,    \* time since the last refused connection attempt (saturating)
    sleepLeft,  \* time left of the running asyncio.sleep
    afterRefused, \* the previous connection attempt was refused
    text,       \* line codec: the text handed to submit_message
    wire,       \* line codec: the bytes submit_message wrote
    decoded     \* line codec: the message process_messages makes of the first line

senderVars == <<args, credFile, persistError, token, nickname, message, regResult,
                   authResult, outcome, opened>>
listenerVars == <<durable, fileBuf, fileOpen, received, connBase, recvTotal,
                  elapsed, sleepLeft, afterRefused>>
codecVars == <<text, wire, decoded>>
vars == <<script, pc, conn, retired, senderVars, listenerVars, codecVars>>

----------------------------------------------------------------------------
(* Bounds and program constants *)

\* lines the server sends during one listener run
MaxTotal == 3
\* records the history file object buffers before it writes them out itself
BufCap == 2
RECONNECT_TIME == 5

----------------------------------------------------------------------------
(* Text *)

None == <<>>

IsWhite(c) == c \in {" ", "\n"}

RECURSIVE lstrip(_)
lstrip(t) == IF t # <<>> /\ IsWhite(Head(t)) THEN lstrip(Tail(t)) ELSE t

RECURSIVE rstrip(_)
rstrip(t) ==
    IF t # <<>> /\ IsWhite(t[Len(t)]) THEN rstrip(SubSeq(t, 1, Len(t) - 1)) ELSE t

\* str.strip()
strip(t) == rstrip(lstrip(t))

\* str.replace("\n", " ")
replace_newline(t) == [i \in 1..Len(t) |-> IF t[i] = "\n" THEN " " ELSE t[i]]

\* submit_message without its replace
frame_no_replace(t) == strip(t) \o <<"\n", "\n">>

\* submit_message with the arguments of replace swapped
frame_replace_swapped(t) ==
    [i \in 1..Len(strip(t)) |-> IF strip(t)[i] = " " THEN "\n" ELSE strip(t)[i]]
        \o <<"\n", "\n">>

\* submit_message: the bytes handed to writer.write
frame(t) == replace_newline(strip(t)) \o <<"\n", "\n">>

----------------------------------------------------------------------------
(* JSON values and the lines the server may answer with *)

JNull == [kind |-> "null", fields |-> <<>>]
JObj(f) == [kind |-> "obj", fields |-> f]
JOther(k) == [kind |-> k, fields |-> <<>>]

OBJ_FULL == "{\"nickname\":\"n\",\"account_hash\":\"t\"}"
OBJ_RENAMED == "{\"nickname\":\"m\",\"account_hash\":\"t\"}"
OBJ_HASHONLY == "{\"account_hash\":\"t\"}"
OBJ_NOHASH == "{\"nickname\":\"n\"}"
OBJ_EMPTYHASH == "{\"nickname\":\"n\",\"account_hash\":\"\"}"
OBJ_SURROGATE == "{\"nickname\":\"\\ud800\",\"account_hash\":\"t\"}"

ResponseLines ==
    {"null", "", "garbage", "{}", "[]", "0",
     OBJ_FULL, OBJ_RENAMED, OBJ_HASHONLY, OBJ_NOHASH, OBJ_EMPTYHASH, OBJ_SURROGATE}

\* json.loads: the parsed value, or JSONDecodeError
json_loads(line) ==
    CASE line = "null" -> [ok |-> TRUE, value |-> JNull]
      [] line = "{}" -> [ok |-> TRUE, value |-> JObj(<<>>)]
      [] line = "[]" -> [ok |-> TRUE, value |-> JOther("array")]
      [] line = "0" -> [ok |-> TRUE, value |-> JOther("number")]
      [] line = OBJ_FULL ->
            [ok |-> TRUE, value |-> JObj([nickname |-> <<"n">>, account_hash |-> <<"t">>])]
      [] line = OBJ_RENAMED ->
            [ok |-> TRUE, value |-> JObj([nickname |-> <<"m">>, account_hash |-> <<"t">>])]
      [] line = OBJ_HASHONLY ->
            [ok |-> TRUE, value |-> JObj([account_hash |-> <<"t">>])]
      [] line = OBJ_NOHASH ->
            [ok |-> TRUE, value |-> JObj([nickname |-> <<"n">>])]
      [] line = OBJ_EMPTYHASH ->
            [ok |-> TRUE, value |-> JObj([nickname |-> <<"n">>, account_hash |-> <<>>])]
      [] line = OBJ_SURROGATE ->
            [ok |-> TRUE, value |-> JObj([nickname |-> <<"S">>, account_hash |-> <<"t">>])]
      [] OTHER -> [ok |-> FALSE, value |-> JNull]

\* dict.get(key): None when the key is absent
dict_get(v, key) == IF key \in DOMAIN v.fields THEN v.fields[key] ELSE None

\* a str of the value cannot be encoded as UTF-8 (it holds a lone surrogate)
Unencodable(v) == \E k \in DOMAIN v.fields : \E i \in 1..Len(v.fields[k]) : v.fields[k][i] = "S"

\* bytes.decode(errors="ignore").strip() of what one read(1024) returned, as
\* the lines it holds: leading and trailing blank lines are stripped
RECURSIVE lstrip_lines(_)
lstrip_lines(ch) == IF ch # <<>> /\ Head(ch) = "" THEN lstrip_lines(Tail(ch)) ELSE ch

RECURSIVE rstrip_lines(_)
rstrip_lines(ch) ==
    IF ch # <<>> /\ ch[Len(ch)] = "" THEN rstrip_lines(SubSeq(ch, 1, Len(ch) - 1)) ELSE ch

decode_strip(ch) == rstrip_lines(lstrip_lines(ch))

\* message.split("\n", 1)[0]
first_line(m) == IF m = <<>> THEN "" ELSE m[1]

\* what the server sends as greeting or prompt: a line, or nothing before it closes
GreetingChunks == {<<"Hello">>, <<>>}

\* what the server sends where the result is expected
ResultChunks ==
    {<<l>> : l \in ResponseLines}
        \cup {<<"null", "Welcome">>, <<OBJ_FULL, "Welcome">>, <<"", OBJ_FULL>>, <<>>}

\* the lines that may reach the client in two pieces, and the pieces
Splittable == {"Hello", "null", OBJ_FULL}

first_half(line) ==
    CASE line = "Hello" -> "Hel"
      [] line = "null" -> "nu"
      [] OTHER -> "{\"nickname\":\"n\","

second_half(line) ==
    CASE line = "Hello" -> "lo"
      [] line = "null" -> "ll"
      [] OTHER -> "\"account_hash\":\"t\"}"

\* read(1024) returns whatever has arrived: some of the lines available, the
\* last of them possibly cut; the remainder stays in the socket
Cuts(avail) ==
    {[data |-> SubSeq(avail, 1, k), rest |-> SubSeq(avail, k + 1, Len(avail))] :
        k \in 1..Len(avail)}
    \cup
    {[data |-> Append(SubSeq(avail, 1, k), first_half(avail[k + 1])),
      rest |-> <<second_half(avail[k + 1])>> \o SubSeq(avail, k + 2, Len(avail))] :
        k \in {j \in 0..(Len(avail) - 1) : avail[j + 1] \in Splittable}}

\* await reader.read(1024) where `unread` is left in the socket and the server
\* has sent one of `chunks` since: an exception, b"" at end of stream, or data
ReadResults(unread, chunks) ==
    {[exc |-> TRUE, data |-> <<>>, rest |-> unread, sent |-> <<>>]}
    \cup UNION {
        IF unread \o ch = <<>>
        THEN {[exc |-> FALSE, data |-> <<>>, rest |-> <<>>, sent |-> ch]}
        ELSE {[exc |-> FALSE, data |-> c.data, rest |-> c.rest, sent |-> ch] :
                c \in Cuts(unread \o ch)}
        : ch \in chunks}

----------------------------------------------------------------------------
(* The credentials file *)

CredFiles ==
    {[state |-> s, value |-> JNull] : s \in {"missing", "unreadable", "bad_encoding", "invalid"}}
        \cup {[state |-> "json", value |-> v] :
                v \in {JObj([nickname |-> <<"n">>, account_hash |-> <<"f">>]),
                       JObj([nickname |-> <<"n">>]),
                       JOther("array")}}

\* read_token_from_file (write_minechat.py) / get_token (write-minechat.py):
\* the value returned, or the exception that leaves the function
read_token_from_file(f) ==
    CASE f.state = "missing" -> [raised |-> FALSE, value |-> None]
      [] f.state = "unreadable" -> [raised |-> FALSE, value |-> None]
      [] f.state = "invalid" -> [raised |-> FALSE, value |-> None]
      [] f.state = "bad_encoding" -> [raised |-> TRUE, value |-> None]
      [] f.state = "json" /\ f.value.kind # "obj" -> [raised |-> TRUE, value |-> None]
      [] f.state = "json" /\ "account_hash" \notin DOMAIN f.value.fields ->
            [raised |-> FALSE, value |-> None]
      [] OTHER -> [raised |-> FALSE, value |-> f.value.fields["account_hash"]]

\* what the file system does to save_credentials
SaveEnv == {"ok", "oserror_open", "oserror_write"}

\* save_credentials: the file afterwards, and whether an exception leaves it
save_credentials(credentials, f, env) ==
    CASE env = "oserror_open" -> [raised |-> FALSE, logged |-> TRUE, file |-> f]
      [] env = "oserror_write" ->
            [raised |-> FALSE, logged |-> TRUE,
             file |-> [state |-> "invalid", value |-> JNull]]
      [] env = "ok" /\ Unencodable(credentials) ->
            [raised |-> TRUE, logged |-> FALSE,
             file |-> [state |-> "invalid", value |-> JNull]]
      [] OTHER ->
            [raised |-> FALSE, logged |-> FALSE,
             file |-> [state |-> "json", value |-> credentials]]

----------------------------------------------------------------------------
(* Connections *)

\* `steps` is the order of the handshake's reads and writes on the connection,
\* `unread` what has arrived and was not read yet, `result` the lines the
\* server sent in answer to the nickname or the token
NoConn ==
    [status |-> "None", closes |-> 0, sent |-> <<>>, opener |-> "none", steps |-> <<>>,
     unread |-> <<>>, result |-> <<>>]
NewConn(o) ==
    [status |-> "Open", closes |-> 0, sent |-> <<>>, opener |-> o, steps |-> <<>>,
     unread |-> <<>>, result |-> <<>>]

\* writer.write(bytes)
Write(c, kind, bytes) ==
    [c EXCEPT !.sent = Append(@, [kind |-> kind, bytes |-> bytes]),
              !.steps = Append(@, kind)]

\* await reader.read(1024) has returned r
Read(c, r) == [c EXCEPT !.steps = Append(@, "read"), !.unread = r.rest]

\* the same, for the read that follows the nickname or the token
ReadResult(c, r) == [Read(c, r) EXCEPT !.result = r.sent]

\* writer.close(); await writer.wait_closed()
Close(c) == [c EXCEPT !.status = "Closed", !.closes = @ + 1]

\* the record kept of a connection once the next one is opened
Retire(c, r) ==
    IF c.status = "None" THEN r
    ELSE r \cup {[status |-> c.status, closes |-> c.closes, opener |-> c.opener]}

----------------------------------------------------------------------------
(* Initial state: one script is started with some configuration *)

Scripts == {"listen", "write_u", "write_h"}

Messages == {<<"h", "i">>, <<" ", "a", "\n", "b", " ">>}

ArgSets ==
    [token : {None, <<"k">>}, nickname : {None, <<"n">>}, message : Messages]

NoArgs == [token |-> None, nickname |-> None, message |-> None]

Init ==
    /\ script \in Scripts
    /\ pc = CASE script = "listen" -> "l_open"
              [] script = "write_u" -> "u_start"
              [] OTHER -> "h_start"
    /\ args \in (IF script = "listen" THEN {NoArgs} ELSE ArgSets)
    /\ credFile \in (IF script = "listen" THEN {[state |-> "missing", value |-> JNull]}
                     ELSE CredFiles)
    /\ persistError = FALSE
    /\ token = None
    /\ nickname = None
    /\ message = <<>>
    /\ regResult = "none"
    /\ authResult = "none"
    /\ outcome = "running"
    /\ conn = NoConn
    /\ retired = {}
    /\ opened = 0
    /\ durable = <<>>
    /\ fileBuf = <<>>
    /\ fileOpen = FALSE
    /\ received = <<>>
    /\ connBase = 0
    /\ recvTotal = 0
    /\ elapsed = RECONNECT_TIME
    /\ sleepLeft = 0
    /\ afterRefused = FALSE
    /\ text = <<>>
    /\ wire = <<>>
    /\ decoded = <<>>

----------------------------------------------------------------------------
(* write_minechat.py: the sender built on chat_connection *)

\* get_token and the `if not token: return` of main
U_GetToken ==
    /\ script = "write_u" /\ pc = "u_start"
    /\ LET r == read_token_from_file(credFile)
       IN  IF args.token # None
           THEN token' = args.token /\ pc' = "um_connect" /\ outcome' = outcome
           ELSE IF r.raised
           THEN token' = token /\ pc' = "raised" /\ outcome' = "unhandled_exception"
           ELSE IF r.value # None
           THEN token' = r.value /\ pc' = "um_connect" /\ outcome' = outcome
           ELSE IF args.nickname # None
           THEN token' = token /\ pc' = "ur_connect" /\ outcome' = outcome
           ELSE token' = token /\ pc' = "done" /\ outcome' = "no_credentials"
    /\ UNCHANGED <<script, codecVars, args, nickname, credFile, persistError, message, regResult,
                   authResult, opened,
                   conn, retired, listenerVars>>

\* register sending the nickname right after the greeting
register_after_greeting_no_blank(s) ==
    IF s = "write_u" THEN "ur_send_nickname" ELSE "hr_send_nickname"

\* register: the statement that follows the read of the greeting is the send
\* of the empty line
register_after_greeting(s) == IF s = "write_u" THEN "ur_send_blank" ELSE "hr_send_blank"

\* register's `except Exception` followed by the exit of its `async with`,
\* get_token's error message and main's return
U_RegisterFails(c) ==
    /\ regResult' = "Failure"
    /\ token' = None
    /\ conn' = Close(c)
    /\ outcome' = "registration_failed"
    /\ pc' = "done"

\* register: `async with chat_connection(host, port)` is entered outside the try
U_RegisterConnect ==
    /\ script = "write_u" /\ pc = "ur_connect"
    /\ \E res \in {"ok", "refused", "oserror"} :
          IF res = "ok"
          THEN /\ conn' = NewConn("register")
               /\ retired' = Retire(conn, retired)
               /\ opened' = opened + 1
               /\ pc' = "ur_greeting"
               /\ UNCHANGED <<regResult, outcome>>
          ELSE /\ regResult' = "Raised"
               /\ outcome' = "unhandled_exception"
               /\ pc' = "raised"
               /\ UNCHANGED <<conn, retired, opened>>
    /\ UNCHANGED <<script, codecVars, args, nickname, credFile, persistError, token, message,
                   authResult, listenerVars>>

\* register: message = await reader.read(1024), the greeting
U_RegisterReadGreeting ==
    /\ script = "write_u" /\ pc = "ur_greeting"
    /\ \E r \in ReadResults(conn.unread, GreetingChunks) :
          IF r.exc
          THEN U_RegisterFails(conn) /\ message' = message
          ELSE /\ message' = decode_strip(r.data)
               /\ conn' = Read(conn, r)
               /\ pc' = register_after_greeting(script)
               /\ UNCHANGED <<regResult, token, outcome>>
    /\ UNCHANGED <<script, codecVars, args, nickname, credFile, persistError, authResult, opened,
                   retired, listenerVars>>

\* register: writer.write(b"\n"); await writer.drain()
U_RegisterSendBlank ==
    /\ script = "write_u" /\ pc = "ur_send_blank"
    /\ \E drained \in BOOLEAN :
          IF drained
          THEN /\ conn' = Write(conn, "blank", <<"\n">>)
               /\ pc' = "ur_prompt"
               /\ UNCHANGED <<regResult, token, outcome>>
          ELSE /\ regResult' = "Failure"
               /\ token' = None
               /\ conn' = Close(Write(conn, "blank", <<"\n">>))
               /\ outcome' = "registration_failed"
               /\ pc' = "done"
    /\ UNCHANGED <<script, codecVars, args, nickname, credFile, persistError, message, authResult,
                   opened, retired,
                   listenerVars>>

\* register: message = await reader.read(1024), the nickname prompt
U_RegisterReadPrompt ==
    /\ script = "write_u" /\ pc = "ur_prompt"
    /\ \E r \in ReadResults(conn.unread, GreetingChunks) :
          IF r.exc
          THEN U_RegisterFails(conn) /\ message' = message
          ELSE /\ message' = decode_strip(r.data)
               /\ conn' = Read(conn, r)
               /\ pc' = "ur_send_nickname"
               /\ UNCHANGED <<regResult, token, outcome>>
    /\ UNCHANGED <<script, codecVars, args, nickname, credFile, persistError, authResult, opened,
                   retired, listenerVars>>

\* register: await submit_message(writer, nickname)
U_RegisterSendNickname ==
    /\ script = "write_u" /\ pc = "ur_send_nickname"
    /\ \E drained \in BOOLEAN :
          IF drained
          THEN /\ conn' = Write(conn, "nickname", frame(args.nickname))
               /\ pc' = "ur_result"
               /\ UNCHANGED <<regResult, token, outcome>>
          ELSE /\ regResult' = "Failure"
               /\ token' = None
               /\ conn' = Close(Write(conn, "nickname", frame(args.nickname)))
               /\ outcome' = "registration_failed"
               /\ pc' = "done"
    /\ UNCHANGED <<script, codecVars, args, nickname, credFile, persistError, message, authResult,
                   opened, retired,
                   listenerVars>>

\* register: the last read, json.loads, the token check, save_credentials, return
U_RegisterReadResult ==
    /\ script = "write_u" /\ pc = "ur_result"
    /\ \E r \in ReadResults(conn.unread, ResultChunks), env \in SaveEnv :
          LET m == decode_strip(r.data)
              parsed == json_loads(first_line(m))
              credentials == parsed.value
              saved == save_credentials(credentials, credFile, env)
          IN  IF r.exc
              THEN /\ U_RegisterFails(conn)
                   /\ UNCHANGED <<message, credFile, persistError>>
              ELSE IF \/ ~parsed.ok
                      \/ credentials.kind # "obj"
                      \/ dict_get(credentials, "account_hash") = None
              THEN /\ U_RegisterFails(ReadResult(conn, r))
                   /\ message' = m
                   /\ UNCHANGED <<credFile, persistError>>
              ELSE IF saved.raised
              THEN /\ U_RegisterFails(ReadResult(conn, r))
                   /\ message' = m
                   /\ credFile' = saved.file
                   /\ persistError' = saved.logged
              ELSE /\ message' = m
                   /\ credFile' = saved.file
                   /\ persistError' = saved.logged
                   /\ regResult' = "Success"
                   /\ token' = dict_get(credentials, "account_hash")
                   /\ conn' = Close(ReadResult(conn, r))
                   /\ pc' = "um_connect"
                   /\ outcome' = outcome
    /\ UNCHANGED <<script, codecVars, args, nickname, authResult, opened, retired, listenerVars>>

\* the check of authorize left out
credentials_is_None_unchecked(credentials) == FALSE

\* authorize: `if credentials is None`
credentials_is_None(credentials) == credentials = JNull

\* main calling authorize once more after it failed
main_after_authorize_retry(s) == IF s = "write_u" THEN "um_connect" ELSE "ha_connect"

\* main after a failed authorize: `except Exception` is the last statement of
\* write_minechat.py's main, and write-minechat.py's main returns on
\* `if not writer`
main_after_authorize(s) == "done"

\* authorize's `except Exception: ... raise`, main's `except Exception` and the
\* exit of main's `async with`
U_AuthorizeFails(result, c) ==
    /\ authResult' = result
    /\ conn' = Close(c)
    /\ outcome' = "authorization_failed"
    /\ pc' = main_after_authorize(script)

\* main: `async with chat_connection(args.host, args.port)` is entered outside the try
U_MainConnect ==
    /\ script = "write_u" /\ pc = "um_connect"
    /\ \E res \in {"ok", "refused", "oserror"} :
          IF res = "ok"
          THEN /\ conn' = NewConn("main")
               /\ retired' = Retire(conn, retired)
               /\ opened' = opened + 1
               /\ pc' = "ua_greeting"
               /\ outcome' = outcome
          ELSE /\ outcome' = "unhandled_exception"
               /\ pc' = "raised"
               /\ UNCHANGED <<conn, retired, opened>>
    /\ message' = <<>>
    /\ UNCHANGED <<script, codecVars, args, nickname, credFile, persistError, token, regResult,
                   authResult, listenerVars>>

\* authorize: message = await reader.read(1024), the greeting
U_AuthorizeReadGreeting ==
    /\ script = "write_u" /\ pc = "ua_greeting"
    /\ \E r \in ReadResults(conn.unread, GreetingChunks) :
          IF r.exc
          THEN U_AuthorizeFails("Failed", conn) /\ message' = message
          ELSE /\ message' = decode_strip(r.data)
               /\ conn' = Read(conn, r)
               /\ pc' = "ua_send_token"
               /\ UNCHANGED <<authResult, outcome>>
    /\ UNCHANGED <<script, codecVars, args, nickname, credFile, persistError, token, regResult,
                   opened, retired,
                   listenerVars>>

\* authorize: await submit_message(writer, token)
U_AuthorizeSendToken ==
    /\ script = "write_u" /\ pc = "ua_send_token"
    /\ \E drained \in BOOLEAN :
          IF drained
          THEN /\ conn' = Write(conn, "token", frame(token))
               /\ pc' = "ua_result"
               /\ UNCHANGED <<authResult, outcome>>
          ELSE /\ authResult' = "Failed"
               /\ conn' = Close(Write(conn, "token", frame(token)))
               /\ outcome' = "authorization_failed"
               /\ pc' = main_after_authorize(script)
    /\ UNCHANGED <<script, codecVars, args, nickname, credFile, persistError, token, message,
                   regResult, opened,
                   retired, listenerVars>>

\* authorize: the last read, json.loads and the `credentials is None` check
U_AuthorizeReadResult ==
    /\ script = "write_u" /\ pc = "ua_result"
    /\ \E r \in ReadResults(conn.unread, ResultChunks) :
          LET m == decode_strip(r.data)
              parsed == json_loads(first_line(m))
          IN  IF r.exc
              THEN U_AuthorizeFails("Failed", conn) /\ message' = message
              ELSE IF ~parsed.ok
              THEN U_AuthorizeFails("Failed", ReadResult(conn, r)) /\ message' = m
              ELSE IF credentials_is_None(parsed.value)
              THEN U_AuthorizeFails("Rejected", ReadResult(conn, r)) /\ message' = m
              ELSE /\ message' = m
                   /\ authResult' = "Authorized"
                   /\ conn' = ReadResult(conn, r)
                   /\ pc' = "um_send"
                   /\ outcome' = outcome
    /\ UNCHANGED <<script, codecVars, args, nickname, credFile, persistError, token, regResult,
                   opened, retired,
                   listenerVars>>

\* main: await submit_message(writer, args.message), then the exit of the `async with`
U_MainSend ==
    /\ script = "write_u" /\ pc = "um_send"
    /\ \E drained \in BOOLEAN :
          /\ conn' = Close(Write(conn, "message", frame(args.message)))
          /\ outcome' = IF drained THEN "sent" ELSE "send_failed"
          /\ pc' = "done"
    /\ UNCHANGED <<script, codecVars, args, nickname, credFile, persistError, token, message,
                   regResult, authResult,
                   opened, retired, listenerVars>>

\* the await points of write_minechat.py
U_AwaitPoints ==
    {"ur_connect", "ur_greeting", "ur_send_blank", "ur_prompt", "ur_send_nickname",
     "ur_result", "um_connect", "ua_greeting", "ua_send_token", "ua_result", "um_send"}

\* CancelledError at an await: only the `finally` of chat_connection runs
U_Cancel ==
    /\ script = "write_u" /\ pc \in U_AwaitPoints
    /\ conn' = IF conn.status = "Open" THEN Close(conn) ELSE conn
    /\ outcome' = "cancelled"
    /\ pc' = "cancelled"
    /\ UNCHANGED <<script, codecVars, args, nickname, credFile, persistError, token, message,
                   regResult, authResult,
                   opened, retired, listenerVars>>

----------------------------------------------------------------------------
(* write-minechat.py: the sender that opens its sockets itself *)

\* main: the token from the arguments or the file, and the choice of path
H_GetToken ==
    /\ script = "write_h" /\ pc = "h_start"
    /\ LET r == read_token_from_file(credFile)
       IN  IF args.token # None
           THEN token' = args.token /\ pc' = "ha_connect" /\ outcome' = outcome
           ELSE IF r.raised
           THEN token' = token /\ pc' = "raised" /\ outcome' = "unhandled_exception"
           ELSE IF r.value # None
           THEN token' = r.value /\ pc' = "ha_connect" /\ outcome' = outcome
           ELSE IF args.nickname # None
           THEN token' = r.value /\ pc' = "hr_connect" /\ outcome' = outcome
           ELSE token' = r.value /\ pc' = "done" /\ outcome' = "no_credentials"
    /\ UNCHANGED <<script, codecVars, args, nickname, credFile, persistError, message, regResult,
                   authResult, opened,
                   conn, retired, listenerVars>>

\* register returning without closing its writer
register_leaves_open(c) == c

\* register: writer.close(); await writer.wait_closed() before `return nickname, token`
register_close(c) == Close(c)

\* register's `return None` (no token, or `except Exception`) and main's
\* `if not result: ... return`; the writer is left as it is
H_RegisterFails ==
    /\ regResult' = "Failure"
    /\ outcome' = "registration_failed"
    /\ pc' = "done"

\* register: asyncio.open_connection, inside the try
H_RegisterConnect ==
    /\ script = "write_h" /\ pc = "hr_connect"
    /\ \E res \in {"ok", "refused", "oserror"} :
          IF res = "ok"
          THEN /\ conn' = NewConn("register")
               /\ retired' = Retire(conn, retired)
               /\ opened' = opened + 1
               /\ pc' = "hr_greeting"
               /\ UNCHANGED <<regResult, outcome>>
          ELSE H_RegisterFails /\ UNCHANGED <<conn, retired, opened>>
    /\ UNCHANGED <<script, codecVars, args, nickname, credFile, persistError, token, message,
                   authResult,
                   listenerVars>>

\* register: message = await reader.read(1024), the greeting
H_RegisterReadGreeting ==
    /\ script = "write_h" /\ pc = "hr_greeting"
    /\ \E r \in ReadResults(conn.unread, GreetingChunks) :
          IF r.exc
          THEN H_RegisterFails /\ UNCHANGED <<message, conn>>
          ELSE /\ message' = decode_strip(r.data)
               /\ conn' = Read(conn, r)
               /\ pc' = register_after_greeting(script)
               /\ UNCHANGED <<regResult, outcome>>
    /\ UNCHANGED <<script, codecVars, args, nickname, credFile, persistError, token,
                   authResult, opened, retired, listenerVars>>

\* register: await submit_message(writer), the default message ""
H_RegisterSendBlank ==
    /\ script = "write_h" /\ pc = "hr_send_blank"
    /\ conn' = Write(conn, "blank", frame(<<>>))
    /\ \E drained \in BOOLEAN :
          IF drained
          THEN pc' = "hr_prompt" /\ UNCHANGED <<regResult, outcome>>
          ELSE H_RegisterFails
    /\ UNCHANGED <<script, codecVars, args, nickname, credFile, persistError, token, message,
                   authResult, opened,
                   retired, listenerVars>>

\* register: message = await reader.read(1024), the nickname prompt
H_RegisterReadPrompt ==
    /\ script = "write_h" /\ pc = "hr_prompt"
    /\ \E r \in ReadResults(conn.unread, GreetingChunks) :
          IF r.exc
          THEN H_RegisterFails /\ UNCHANGED <<message, conn>>
          ELSE /\ message' = decode_strip(r.data)
               /\ conn' = Read(conn, r)
               /\ pc' = "hr_send_nickname"
               /\ UNCHANGED <<regResult, outcome>>
    /\ UNCHANGED <<script, codecVars, args, nickname, credFile, persistError, token,
                   authResult, opened, retired, listenerVars>>

\* register: await submit_message(writer, nickname)
H_RegisterSendNickname ==
    /\ script = "write_h" /\ pc = "hr_send_nickname"
    /\ conn' = Write(conn, "nickname", frame(args.nickname))
    /\ \E drained \in BOOLEAN :
          IF drained
          THEN pc' = "hr_result" /\ UNCHANGED <<regResult, outcome>>
          ELSE H_RegisterFails
    /\ UNCHANGED <<script, codecVars, args, nickname, credFile, persistError, token, message,
                   authResult, opened,
                   retired, listenerVars>>

\* register: the last read, json.loads, the token check, save_credentials,
\* writer.close() and the return; main's `nickname, token = result`
H_RegisterReadResult ==
    /\ script = "write_h" /\ pc = "hr_result"
    /\ \E r \in ReadResults(conn.unread, ResultChunks), env \in SaveEnv :
          LET m == decode_strip(r.data)
              parsed == json_loads(first_line(m))
              credentials == parsed.value
              saved == save_credentials(credentials, credFile, env)
          IN  IF r.exc
              THEN /\ H_RegisterFails
                   /\ UNCHANGED <<message, credFile, persistError, token, nickname, conn>>
              ELSE IF \/ ~parsed.ok
                      \/ credentials.kind # "obj"
                      \/ dict_get(credentials, "account_hash") = None
              THEN /\ H_RegisterFails
                   /\ message' = m
                   /\ conn' = ReadResult(conn, r)
                   /\ UNCHANGED <<credFile, persistError, token, nickname>>
              ELSE IF saved.raised
              THEN /\ H_RegisterFails
                   /\ message' = m
                   /\ conn' = ReadResult(conn, r)
                   /\ credFile' = saved.file
                   /\ persistError' = saved.logged
                   /\ UNCHANGED <<token, nickname>>
              ELSE /\ message' = m
                   /\ credFile' = saved.file
                   /\ persistError' = saved.logged
                   /\ regResult' = "Success"
                   /\ nickname' = IF "nickname" \in DOMAIN credentials.fields
                                  THEN credentials.fields["nickname"]
                                  ELSE args.nickname
                   /\ token' = dict_get(credentials, "account_hash")
                   /\ conn' = register_close(ReadResult(conn, r))
                   /\ pc' = "ha_connect"
                   /\ outcome' = outcome
    /\ UNCHANGED <<script, codecVars, args, authResult, opened, retired, listenerVars>>

\* authorize's implicit `return None` after `except Exception` and main's
\* `if not writer: ... return`; the writer is left as it is
H_AuthorizeFails ==
    /\ authResult' = "Failed"
    /\ outcome' = "authorization_failed"
    /\ pc' = main_after_authorize(script)

\* authorize: asyncio.open_connection, inside the try
H_AuthorizeConnect ==
    /\ script = "write_h" /\ pc = "ha_connect"
    /\ \E res \in {"ok", "refused", "oserror"} :
          IF res = "ok"
          THEN /\ conn' = NewConn("authorize")
               /\ retired' = Retire(conn, retired)
               /\ opened' = opened + 1
               /\ pc' = "ha_greeting"
               /\ UNCHANGED <<authResult, outcome>>
          ELSE H_AuthorizeFails /\ UNCHANGED <<conn, retired, opened>>
    /\ message' = <<>>
    /\ UNCHANGED <<script, codecVars, args, nickname, credFile, persistError, token, regResult,
                   listenerVars>>

\* authorize: message = await reader.read(1024), the greeting
H_AuthorizeReadGreeting ==
    /\ script = "write_h" /\ pc = "ha_greeting"
    /\ \E r \in ReadResults(conn.unread, GreetingChunks) :
          IF r.exc
          THEN H_AuthorizeFails /\ UNCHANGED <<message, conn>>
          ELSE /\ message' = decode_strip(r.data)
               /\ conn' = Read(conn, r)
               /\ pc' = "ha_send_token"
               /\ UNCHANGED <<authResult, outcome>>
    /\ UNCHANGED <<script, codecVars, args, nickname, credFile, persistError, token,
                   regResult, opened, retired, listenerVars>>

\* authorize: await submit_message(writer, token)
H_AuthorizeSendToken ==
    /\ script = "write_h" /\ pc = "ha_send_token"
    /\ conn' = Write(conn, "token", frame(token))
    /\ \E drained \in BOOLEAN :
          IF drained
          THEN pc' = "ha_result" /\ UNCHANGED <<authResult, outcome>>
          ELSE H_AuthorizeFails
    /\ UNCHANGED <<script, codecVars, args, nickname, credFile, persistError, token, message,
                   regResult, opened,
                   retired, listenerVars>>

\* authorize: the last read, json.loads and the `credentials is None` check
H_AuthorizeReadResult ==
    /\ script = "write_h" /\ pc = "ha_result"
    /\ \E r \in ReadResults(conn.unread, ResultChunks) :
          LET m == decode_strip(r.data)
              parsed == json_loads(first_line(m))
          IN  IF r.exc
              THEN H_AuthorizeFails /\ UNCHANGED <<message, conn>>
              ELSE IF ~parsed.ok
              THEN H_AuthorizeFails /\ message' = m /\ conn' = ReadResult(conn, r)
              ELSE IF credentials_is_None(parsed.value)
              THEN /\ message' = m
                   /\ authResult' = "Rejected"
                   /\ conn' = Close(ReadResult(conn, r))
                   /\ outcome' = "authorization_failed"
                   /\ pc' = main_after_authorize(script)
              ELSE /\ message' = m
                   /\ authResult' = "Authorized"
                   /\ conn' = ReadResult(conn, r)
                   /\ pc' = "hm_send"
                   /\ outcome' = outcome
    /\ UNCHANGED <<script, codecVars, args, nickname, credFile, persistError, token, regResult,
                   opened, retired,
                   listenerVars>>

\* main: await submit_message(writer, args.message) and the `finally`
H_MainSend ==
    /\ script = "write_h" /\ pc = "hm_send"
    /\ \E drained \in BOOLEAN :
          LET written == Write(conn, "message", frame(args.message))
          IN  /\ conn' = IF written.status = "Open" THEN Close(written) ELSE written
              /\ outcome' = IF drained THEN "sent" ELSE "send_failed"
              /\ pc' = "done"
    /\ UNCHANGED <<script, codecVars, args, nickname, credFile, persistError, token, message,
                   regResult, authResult,
                   opened, retired, listenerVars>>

\* the await points of write-minechat.py
H_AwaitPoints ==
    {"hr_connect", "hr_greeting", "hr_send_blank", "hr_prompt", "hr_send_nickname",
     "hr_result", "ha_connect", "ha_greeting", "ha_send_token", "ha_result", "hm_send"}

\* CancelledError at an await: no `except Exception` catches it, and only the
\* `finally` around main's submit_message closes the writer
H_Cancel ==
    /\ script = "write_h" /\ pc \in H_AwaitPoints
    /\ conn' = IF pc = "hm_send" /\ conn.status = "Open" THEN Close(conn) ELSE conn
    /\ outcome' = "cancelled"
    /\ pc' = "cancelled"
    /\ UNCHANGED <<script, codecVars, args, nickname, credFile, persistError, token, message,
                   regResult, authResult,
                   opened, retired, listenerVars>>

SenderNext ==
    \/ U_GetToken \/ U_RegisterConnect \/ U_RegisterReadGreeting \/ U_RegisterSendBlank
    \/ U_RegisterReadPrompt \/ U_RegisterSendNickname \/ U_RegisterReadResult
    \/ U_MainConnect \/ U_AuthorizeReadGreeting \/ U_AuthorizeSendToken
    \/ U_AuthorizeReadResult \/ U_MainSend \/ U_Cancel
    \/ H_GetToken \/ H_RegisterConnect \/ H_RegisterReadGreeting \/ H_RegisterSendBlank
    \/ H_RegisterReadPrompt \/ H_RegisterSendNickname \/ H_RegisterReadResult
    \/ H_AuthorizeConnect \/ H_AuthorizeReadGreeting \/ H_AuthorizeSendToken
    \/ H_AuthorizeReadResult \/ H_MainSend \/ H_Cancel

----------------------------------------------------------------------------
(* listen-minechat.py *)

\* the lines `async for raw_message in reader` may yield
RawLines ==
    {<<"a", "\n">>, <<"b", "\n">>, <<"\n">>, <<" ", "\n">>, <<"X", "\n">>,
     <<" ", "a", " ", "\n">>}

\* bytes.decode(): strict UTF-8, UnicodeDecodeError on an invalid byte
decode(raw) == [ok |-> \A i \in 1..Len(raw) : raw[i] # "X", text |-> raw]

\* f"[{timestamp}] {message}\n"; "T" stands for the formatted time
formatted_message(m) == <<"[", "T", "]", " ">> \o m \o <<"\n">>

\* the new record put in front of the buffered ones
file_write_in_front(f, rec) ==
    IF Len(f.buf) >= BufCap
    THEN [disk |-> f.disk \o f.buf, buf |-> <<rec>>]
    ELSE [disk |-> f.disk, buf |-> <<rec>> \o f.buf]

\* file.write on the buffered file object opened by aiofiles.open(mode="a"):
\* a full buffer is written out before the new record is buffered
file_write(f, rec) ==
    IF Len(f.buf) >= BufCap
    THEN [disk |-> f.disk \o f.buf, buf |-> <<rec>>]
    ELSE [disk |-> f.disk, buf |-> Append(f.buf, rec)]

\* closing the file object (the exit of `async with aiofiles.open`) flushes it
file_close(f) == [disk |-> f.disk \o f.buf, buf |-> <<>>]

\* the handling of one line without its try / except
LineErrorPropagates == FALSE

\* process_messages wraps the handling of one line in try / except Exception
LineErrorCaught == TRUE

\* a pause shorter than the interval
sleep_time_short == RECONNECT_TIME - 1

\* the argument of asyncio.sleep in main
sleep_time == RECONNECT_TIME

\* the last clause of main catching BaseException
main_except_catch_all(exc) ==
    CASE exc = "ConnectionRefusedError" -> "l_sleep"
      [] OTHER -> "l_open"

\* the except clauses of main: where the loop goes on for an exception that
\* reaches them; CancelledError is no Exception and leaves main
main_except(exc) ==
    CASE exc = "ConnectionRefusedError" -> "l_sleep"
      [] exc \in {"ConnectionResetError", "BrokenPipeError"} -> "l_open"
      [] exc \in {"OSError", "UnicodeDecodeError"} -> "l_open"
      [] OTHER -> "cancelled"

TheFile == [disk |-> durable, buf |-> fileBuf]

CloseHistory ==
    /\ durable' = file_close(TheFile).disk
    /\ fileBuf' = file_close(TheFile).buf
    /\ fileOpen' = FALSE

\* main: aiofiles.open(args.history, mode="a") succeeds
L_OpenHistory ==
    /\ script = "listen" /\ pc = "l_open"
    /\ fileOpen' = TRUE
    /\ pc' = "l_connect"
    /\ UNCHANGED <<script, codecVars, conn, retired, senderVars, durable, fileBuf, received,
                   connBase,
                   recvTotal, elapsed, sleepLeft, afterRefused>>

\* main: aiofiles.open raises OSError, which `except Exception` reports
L_OpenHistoryFails ==
    /\ script = "listen" /\ pc = "l_open"
    /\ pc' = main_except("OSError")
    /\ UNCHANGED <<script, codecVars, conn, retired, senderVars, listenerVars>>

\* chat_connection: asyncio.open_connection, and main's handlers when it raises
L_Connect ==
    /\ script = "listen" /\ pc = "l_connect"
    /\ \E res \in {"ok", "ConnectionRefusedError", "OSError"} :
          IF res = "ok"
          THEN /\ conn' = NewConn("listener")
               /\ retired' = Retire(conn, retired)
               /\ received' = <<>>
               /\ connBase' = Len(durable) + Len(fileBuf)
               /\ afterRefused' = FALSE
               /\ pc' = "l_stream"
               /\ UNCHANGED <<durable, fileBuf, fileOpen, elapsed, sleepLeft>>
          ELSE /\ CloseHistory
               /\ pc' = main_except(res)
               /\ afterRefused' = (res = "ConnectionRefusedError")
               /\ elapsed' = IF res = "ConnectionRefusedError" THEN 0 ELSE elapsed
               /\ sleepLeft' = IF res = "ConnectionRefusedError" THEN sleep_time ELSE sleepLeft
               /\ UNCHANGED <<conn, retired, received, connBase>>
    /\ UNCHANGED <<script, codecVars, senderVars, recvTotal>>

\* time passes
Tick ==
    /\ script = "listen" /\ pc # "cancelled"
    /\ elapsed < RECONNECT_TIME \/ sleepLeft > 0
    /\ elapsed' = IF elapsed < RECONNECT_TIME THEN elapsed + 1 ELSE elapsed
    /\ sleepLeft' = IF sleepLeft > 0 THEN sleepLeft - 1 ELSE 0
    /\ UNCHANGED <<script, codecVars, pc, conn, retired, senderVars, durable, fileBuf, fileOpen,
                   received, connBase, recvTotal, afterRefused>>

\* main: asyncio.sleep(RECONNECT_TIME) returns and the loop starts over
L_Wake ==
    /\ script = "listen" /\ pc = "l_sleep" /\ sleepLeft = 0
    /\ pc' = "l_open"
    /\ UNCHANGED <<script, codecVars, conn, retired, senderVars, listenerVars>>

\* process_messages: one turn of the `async for` loop
L_ProcessLine ==
    /\ script = "listen" /\ pc = "l_stream" /\ recvTotal < MaxTotal
    /\ \E raw \in RawLines, writeOk \in BOOLEAN :
          LET d == decode(raw)
              m == strip(d.text)
              error == ~d.ok \/ (m # <<>> /\ ~writeOk)
              file == IF d.ok /\ m # <<>> /\ writeOk
                      THEN file_write(TheFile, formatted_message(m))
                      ELSE TheFile
          IN  /\ recvTotal' = recvTotal + 1
              /\ received' = Append(received, [raw |-> raw, error |-> error])
              /\ IF error /\ ~LineErrorCaught
                 THEN /\ conn' = Close(conn)
                      /\ durable' = file_close(file).disk
                      /\ fileBuf' = file_close(file).buf
                      /\ fileOpen' = FALSE
                      /\ pc' = main_except(IF d.ok THEN "OSError" ELSE "UnicodeDecodeError")
                 ELSE /\ conn' = conn
                      /\ durable' = file.disk
                      /\ fileBuf' = file.buf
                      /\ fileOpen' = fileOpen
                      /\ pc' = "l_stream"
    /\ UNCHANGED <<script, codecVars, retired, senderVars, connBase, elapsed, sleepLeft,
                   afterRefused>>

\* the peer closes: the `async for` ends, process_messages returns, both
\* context managers exit and the `while True` loop starts over
L_EndOfStream ==
    /\ script = "listen" /\ pc = "l_stream"
    /\ conn' = Close(conn)
    /\ CloseHistory
    /\ pc' = "l_open"
    /\ UNCHANGED <<script, codecVars, retired, senderVars, received, connBase, recvTotal, elapsed,
                   sleepLeft, afterRefused>>

\* the reader raises ConnectionResetError out of the `async for`
L_ConnectionReset ==
    /\ script = "listen" /\ pc = "l_stream"
    /\ conn' = Close(conn)
    /\ CloseHistory
    /\ pc' = main_except("ConnectionResetError")
    /\ UNCHANGED <<script, codecVars, retired, senderVars, received, connBase, recvTotal, elapsed,
                   sleepLeft, afterRefused>>

\* KeyboardInterrupt: asyncio.run cancels main, CancelledError is raised at the
\* await the task is suspended in and unwinds through the context managers
L_Cancel ==
    /\ script = "listen" /\ pc \in {"l_open", "l_connect", "l_stream", "l_sleep"}
    /\ conn' = IF conn.status = "Open" THEN Close(conn) ELSE conn
    /\ IF fileOpen THEN CloseHistory ELSE UNCHANGED <<durable, fileBuf, fileOpen>>
    /\ outcome' = "cancelled"
    /\ pc' = main_except("CancelledError")
    /\ sleepLeft' = 0
    /\ UNCHANGED <<script, codecVars, retired, args, credFile, persistError, token, nickname,
                   message, regResult,
                   authResult, opened, received, connBase, recvTotal, elapsed, afterRefused>>

ListenerNext ==
    \/ L_OpenHistory \/ L_OpenHistoryFails \/ L_Connect \/ Tick \/ L_Wake
    \/ L_ProcessLine \/ L_EndOfStream \/ L_ConnectionReset \/ L_Cancel

Next == SenderNext \/ ListenerNext

Spec == Init /\ [][Next]_vars

\* the event loop runs the listener's task whenever it can go on, and time
\* passes; nothing is assumed of the server or of the operator
FairSpec ==
    /\ Spec
    /\ WF_vars(L_OpenHistory)
    /\ WF_vars(L_Connect)
    /\ WF_vars(Tick)
    /\ WF_vars(L_Wake)

\* the steps of a sender run other than its cancellation
SenderProgress ==
    \/ U_GetToken \/ U_RegisterConnect \/ U_RegisterReadGreeting \/ U_RegisterSendBlank
    \/ U_RegisterReadPrompt \/ U_RegisterSendNickname \/ U_RegisterReadResult
    \/ U_MainConnect \/ U_AuthorizeReadGreeting \/ U_AuthorizeSendToken
    \/ U_AuthorizeReadResult \/ U_MainSend
    \/ H_GetToken \/ H_RegisterConnect \/ H_RegisterReadGreeting \/ H_RegisterSendBlank
    \/ H_RegisterReadPrompt \/ H_RegisterSendNickname \/ H_RegisterReadResult
    \/ H_AuthorizeConnect \/ H_AuthorizeReadGreeting \/ H_AuthorizeSendToken
    \/ H_AuthorizeReadResult \/ H_MainSend

\* every open, read and write the sender awaits completes, with data, end of
\* stream or an error, and the event loop then runs the sender's task
SenderFairSpec == Spec /\ WF_vars(SenderProgress)

----------------------------------------------------------------------------
(* The line codec: submit_message on a text, and the first line of what it   *)
(* wrote read back the way process_messages reads a line                     *)

\* length of the texts handed to submit_message
MaxText == 3

Alphabet == {"a", " ", "\n"}

Texts == UNION {[1..n -> Alphabet] : n \in 0..MaxText}

\* StreamReader.readline, which `async for raw_message in reader` calls: the
\* bytes up to and including the first newline, or all of them
RECURSIVE readline(_)
readline(b) ==
    IF b = <<>> THEN <<>>
    ELSE IF Head(b) = "\n" THEN <<"\n">>
    ELSE <<Head(b)>> \o readline(Tail(b))

CodecInit ==
    /\ script = "codec"
    /\ pc = "c_submit"
    /\ text \in Texts
    /\ wire = <<>>
    /\ decoded = <<>>
    /\ args = NoArgs
    /\ credFile = [state |-> "missing", value |-> JNull]
    /\ persistError = FALSE
    /\ token = None
    /\ nickname = None
    /\ message = <<>>
    /\ regResult = "none"
    /\ authResult = "none"
    /\ outcome = "running"
    /\ conn = NoConn
    /\ retired = {}
    /\ opened = 0
    /\ durable = <<>>
    /\ fileBuf = <<>>
    /\ fileOpen = FALSE
    /\ received = <<>>
    /\ connBase = 0
    /\ recvTotal = 0
    /\ elapsed = RECONNECT_TIME
    /\ sleepLeft = 0
    /\ afterRefused = FALSE

\* submit_message(writer, text): writer.write(f"{clean_message}\n\n".encode())
C_Submit ==
    /\ script = "codec" /\ pc = "c_submit"
    /\ wire' = frame(text)
    /\ pc' = "c_read"
    /\ UNCHANGED <<script, text, decoded, conn, retired, senderVars, listenerVars>>

\* process_messages: message = raw_message.decode().strip() of the first line
C_ProcessLine ==
    /\ script = "codec" /\ pc = "c_read"
    /\ decoded' = strip(decode(readline(wire)).text)
    /\ pc' = "c_done"
    /\ UNCHANGED <<script, text, wire, conn, retired, senderVars, listenerVars>>

CodecNext == C_Submit \/ C_ProcessLine

CodecSpec == CodecInit /\ [][CodecNext]_vars

----------------------------------------------------------------------------
(* Properties *)

Senders == {"write_u", "write_h"}
Ended == {"done", "raised", "cancelled"}

\* the frames of one kind written to the current connection
Sent(kind) == {i \in 1..Len(conn.sent) : conn.sent[i].kind = kind}

\* the current connection is the one authorize works on
AuthorizeConn == script \in Senders /\ conn.opener \in {"main", "authorize"}

\* the line that register / authorize parsed, or would parse
ResponseLine == first_line(message)

\* C1: the user's message is written only on a connection on which authorize
\* ended in Authorized; when the answer to the token is `null`, authorize ends
\* in Rejected and nothing is written after the token: the token frame is the
\* only frame of the connection, which is closed.
C1_SendOnlyAfterAuthorized ==
    script \in Senders =>
        /\ Sent("message") # {} => AuthorizeConn /\ authResult = "Authorized"
        /\ (AuthorizeConn /\ ResponseLine = "null") =>
              /\ authResult = "Rejected"
              /\ Len(conn.sent) = 1 /\ conn.sent[1].kind = "token"
              /\ conn.status = "Closed"
              /\ pc = "done" /\ outcome = "authorization_failed"

C1_Witness ==
    /\ AuthorizeConn /\ ResponseLine = "null"
    /\ authResult = "Rejected" /\ conn.status = "Closed" /\ Sent("message") = {}

\* C2 (as claimed): no connection is closed twice, and when the role has ended
\* (returned, raised or was cancelled) every connection it opened has been
\* closed exactly once.
C2_ClosedExactlyOnce ==
    /\ conn.closes <= 1
    /\ \A r \in retired : r.closes <= 1
    /\ pc \in Ended =>
          /\ conn.status = "None" \/ (conn.status = "Closed" /\ conn.closes = 1)
          /\ \A r \in retired : r.status = "Closed" /\ r.closes = 1

\* C3: the loop is entered again after a refused attempt only when
\* RECONNECT_TIME has passed since the refusal, and every refused attempt is
\* followed by another attempt unless the listener is cancelled first.
C3_RetryAfterInterval ==
    /\ [](script = "listen" /\ afterRefused /\ pc \in {"l_open", "l_connect"}
            => elapsed >= RECONNECT_TIME)
    /\ (script = "listen" /\ afterRefused /\ pc = "l_sleep")
          ~> (pc = "l_connect" \/ pc = "cancelled")

C3_Witness ==
    script = "listen" /\ afterRefused /\ pc = "l_connect" /\ elapsed = RECONNECT_TIME

\* C4: the listener is always in its loop unless it was cancelled; whenever it
\* is at the head of the loop or pausing it reaches the next connection attempt
\* unless it is cancelled first; once cancelled it has left the loop for good.
C4_ListenerNeverStops ==
    /\ [](script = "listen" =>
            /\ pc \in {"l_open", "l_connect", "l_stream", "l_sleep", "cancelled"}
            /\ pc = "cancelled" <=> outcome = "cancelled")
    /\ [][script = "listen" /\ outcome = "cancelled" => pc' = "cancelled" /\ conn' = conn]_vars
    /\ (script = "listen" /\ pc \in {"l_open", "l_sleep"})
          ~> (pc = "l_connect" \/ pc = "cancelled")

\* a connection has ended and the listener is about to open the next one
C4_Witness ==
    /\ script = "listen" /\ pc = "l_connect"
    /\ \E r \in retired : r.opener = "listener" /\ r.status = "Closed"

\* what the history file holds, in the order written
Content == durable \o fileBuf

\* the records written since the current connection was opened
ConnRecords == SubSeq(Content, connBase + 1, Len(Content))

IsPrefix(a, b) == Len(a) <= Len(b) /\ SubSeq(b, 1, Len(a)) = a

NonBlank(raw) == strip(raw) # <<>>

\* one record for every line that is not blank, in the order received
RECURSIVE AllRecords(_)
AllRecords(rs) ==
    IF rs = <<>> THEN <<>>
    ELSE (IF NonBlank(Head(rs).raw)
          THEN <<formatted_message(strip(Head(rs).raw))>> ELSE <<>>)
            \o AllRecords(Tail(rs))

\* the same, without the lines whose handling raised
RECURSIVE GoodRecords(_)
GoodRecords(rs) ==
    IF rs = <<>> THEN <<>>
    ELSE (IF NonBlank(Head(rs).raw) /\ ~Head(rs).error
          THEN <<formatted_message(strip(Head(rs).raw))>> ELSE <<>>)
            \o GoodRecords(Tail(rs))

C6_FlushOnEveryWrite ==
    script = "listen" => Len(fileBuf) <= 1

\* a line has just been received and its handling raised
LineErrorStep ==
    /\ script = "listen"
    /\ Len(received') = Len(received) + 1
    /\ received'[Len(received')].error

\* C7: the step in which the handling of a line raises leaves the connection
\* and the file open and untouched and the listener reading on; the lines
\* received after such a line are logged as usual, in order.
C7_ErrorConfinedToLine ==
    /\ [][LineErrorStep =>
            /\ conn' = conn /\ conn.status = "Open"
            /\ fileOpen' /\ Content' = Content
            /\ pc' = "l_stream"]_vars
    /\ [](script = "listen" =>
            \A i \in 1..Len(received) :
                received[i].error =>
                    LET rest == GoodRecords(SubSeq(received, i + 1, Len(received)))
                        n == Len(ConnRecords)
                    IN  /\ Len(rest) <= n
                        /\ SubSeq(ConnRecords, n - Len(rest) + 1, n) = rest)

C7_Witness ==
    /\ script = "listen" /\ conn.status = "Open" /\ pc = "l_stream"
    /\ \E i, j \in 1..Len(received) :
          /\ i < j /\ received[i].error
          /\ ~received[j].error /\ NonBlank(received[j].raw)
          /\ ConnRecords[Len(ConnRecords)] = formatted_message(strip(received[j].raw))

\* the parsed line is an object with a non-empty account_hash
HasToken(p) ==
    p.ok /\ p.value.kind = "obj" /\ dict_get(p.value, "account_hash") # None

\* the parsed line is an object with at least one member
NonEmptyObject(p) == p.ok /\ p.value.kind = "obj" /\ DOMAIN p.value.fields # {}

\* register has returned and authorize has not been started
RegistrarEnded ==
    /\ script \in Senders /\ regResult \in {"Success", "Failure"}
    /\ pc \in {"um_connect", "ha_connect", "done"} /\ authResult = "none"

\* C8 (as claimed): register ends in Success exactly when the line it parsed is
\* an object with a non-empty account_hash; on Success the token is that
\* account_hash and the object handed to save_credentials is what the file
\* holds, unless save_credentials reported that it could not write; a step
\* that ends in Failure leaves the credentials file as it was.
C8_RegistrarOutcome ==
    /\ [](RegistrarEnded =>
            LET p == json_loads(ResponseLine)
            IN  /\ regResult = "Success" <=> HasToken(p)
                /\ regResult = "Success" =>
                      /\ token = dict_get(p.value, "account_hash")
                      /\ persistError \/ credFile = [state |-> "json", value |-> p.value])
    /\ [][regResult' = "Failure" => credFile' = credFile]_vars

\* C9 (as claimed): no exception leaves register; when it fails it returns the
\* Failure value, and the sender reports the failed registration and ends
\* without calling authorize.
C9_RegisterReturnsFailure ==
    script \in Senders =>
        /\ regResult # "Raised"
        /\ regResult = "Failure" =>
              pc = "done" /\ outcome = "registration_failed" /\ authResult = "none"

\* C10 (as claimed): authorize ends in Authorized exactly when the line it
\* parsed is a non-empty object.
C10_AuthorizerOutcome ==
    (AuthorizeConn /\ authResult # "none") =>
        (authResult = "Authorized" <=> NonEmptyObject(json_loads(ResponseLine)))

\* the token frames written to the current connection
TokenFrames == Cardinality(Sent("token"))

\* authorize has ended without authorizing
AuthorizeEndedBadly == script \in Senders /\ authResult \in {"Rejected", "Failed"}

\* C11: once authorize has ended in Rejected or has failed the run is in its
\* terminal authorization-failed state and takes no further step: no new
\* connection, no second authorize, no register; and the token is written at
\* most once in a run, on the connection authorize works on.
C11_NoRetryAfterRejected ==
    /\ [](script \in Senders =>
            /\ TokenFrames <= 1
            /\ TokenFrames = 1 => AuthorizeConn
            /\ AuthorizeEndedBadly => pc = "done" /\ outcome = "authorization_failed")
    /\ [][AuthorizeEndedBadly => UNCHANGED vars]_vars

\* the token was presented, the answer was `null` and the run has ended
C11_Witness ==
    /\ script \in Senders /\ authResult = "Rejected" /\ TokenFrames = 1
    /\ pc = "done" /\ conn.status = "Closed"

\* the account_hash of a credentials file that holds a JSON object with that
\* member, and None for every other file
StoredHash(f) ==
    IF f.state = "json" /\ f.value.kind = "obj" /\ "account_hash" \in DOMAIN f.value.fields
    THEN f.value.fields["account_hash"]
    ELSE None

\* the step in which the sender reads the credentials file
LoadStep ==
    /\ script \in Senders /\ pc \in {"u_start", "h_start"} /\ args.token = None
    /\ pc' # pc

\* C12 (as claimed): reading the credentials file never raises, whatever the
\* file is (missing, unreadable, not UTF-8, not JSON, JSON that is no object,
\* object without account_hash); the token it yields is the stored
\* account_hash when the file is an object with that member and None otherwise.
C12_LoadNeverRaises ==
    [][LoadStep => pc' # "raised" /\ token' = StoredHash(credFile)]_vars

\* a token is supplied or can be taken from the credentials file
TokenAvailable == args.token # None \/ StoredHash(credFile) # None

\* the first step of a sender run: the choice of its path
ChoiceStep == script \in Senders /\ pc \in {"u_start", "h_start"} /\ pc' # pc

\* a connection opened by register exists
RegisterConn ==
    conn.opener = "register" \/ \E r \in retired : r.opener = "register"

\* C13 (as claimed): the first step of a run starts register exactly when no
\* token is available and a nickname is supplied, ends the run in the
\* configuration failure when neither is available, and goes on to authorize
\* when a token is available; register opens its connection only on the path
\* chosen for it, and a run that ended in the configuration failure has opened
\* no connection.
C13_PathSelection ==
    /\ [][ChoiceStep =>
            /\ pc' \in {"ur_connect", "hr_connect"}
                  <=> (~TokenAvailable /\ args.nickname # None)
            /\ (~TokenAvailable /\ args.nickname = None)
                  => pc' = "done" /\ outcome' = "no_credentials"
            /\ TokenAvailable => pc' \in {"um_connect", "ha_connect"}]_vars
    /\ [][~RegisterConn /\ RegisterConn' => pc \in {"ur_connect", "hr_connect"}]_vars
    /\ [](script \in Senders =>
            /\ RegisterConn => args.token = None /\ args.nickname # None
            /\ outcome = "no_credentials" =>
                  pc = "done" /\ opened = 0 /\ conn = NoConn /\ retired = {})

\* C14 (as claimed): a sender run opens at most one connection, also when
\* register is followed by authorize.
C14_AtMostOneConnection ==
    script \in Senders => opened <= 1

\* C14 (amended): a sender run opens at most two connections and has at most
\* one of them open at a time; it opens one when it does not register, and the
\* second one only after register succeeded and closed its own.
C14_AtMostOneOpenConnection ==
    script \in Senders =>
        /\ opened <= 2
        /\ opened = Cardinality(retired) + (IF conn.status = "None" THEN 0 ELSE 1)
        /\ ~RegisterConn => opened <= 1
        /\ opened = 2 =>
              /\ regResult = "Success" /\ AuthorizeConn
              /\ \A r \in retired : r.opener = "register" /\ r.status = "Closed"

\* registration followed by authorization: the second connection is open
C14_Witness ==
    /\ script \in Senders /\ opened = 2 /\ conn.status = "Open"
    /\ \E r \in retired : r.opener = "register" /\ r.status = "Closed"

\* the step in which register found a token in the response, called
\* save_credentials, and the file does not hold the credentials afterwards
SaveFailedStep ==
    /\ script \in Senders /\ pc \in {"ur_result", "hr_result"} /\ pc' # pc
    /\ HasToken(json_loads(first_line(message')))
    /\ credFile' # [state |-> "json", value |-> json_loads(first_line(message')).value]

\* C15 (as claimed): when save_credentials fails to write the credentials the
\* failure is reported by save_credentials itself and register still ends in
\* Success with the token of the response, the run going on to authorize; a
\* run in which the save failed keeps that token.
C15_SaveFailureNotPropagated ==
    /\ [][SaveFailedStep =>
            /\ persistError'
            /\ regResult' = "Success"
            /\ token' = dict_get(json_loads(first_line(message')).value, "account_hash")
            /\ pc' \in {"um_connect", "ha_connect"}]_vars
    /\ [](script \in Senders /\ persistError => regResult = "Success" /\ token # None)

\* the bytes written, without the last two
Payload == SubSeq(wire, 1, Len(wire) - 2)

\* C16: what submit_message writes for a text is a payload without any
\* newline followed by exactly two newlines; the payload is the text without
\* its leading and trailing whitespace, each newline left inside it replaced
\* by one space.
C16_NoNewlineInPayload ==
    (script = "codec" /\ pc \in {"c_read", "c_done"}) =>
        LET n == Len(wire)
            inner == strip(text)
        IN  /\ n >= 2 /\ wire[n] = "\n" /\ wire[n - 1] = "\n"
            /\ \A i \in 1..(n - 2) : wire[i] # "\n"
            /\ Len(Payload) = Len(inner)
            /\ \A i \in 1..Len(inner) :
                  Payload[i] = (IF inner[i] = "\n" THEN " " ELSE inner[i])

\* a text with a newline inside it has been written
C16_Witness ==
    /\ script = "codec" /\ pc = "c_read"
    /\ text = <<"a", "\n", "a">> /\ wire = <<"a", " ", "a", "\n", "\n">>

NoNewline(t) == \A i \in 1..Len(t) : t[i] # "\n"

\* the text neither begins nor ends with a space
Trimmed(t) == t = <<>> \/ (t[1] # " " /\ t[Len(t)] # " ")

Spaces(n) == [i \in 1..n |-> " "]

\* C17 (as claimed): for a text without newlines the message read back from
\* the frame is the text.
C17_RoundTrip ==
    (script = "codec" /\ pc = "c_done" /\ NoNewline(text)) => decoded = text

\* C17 (amended): for a text without newlines the message read back from the
\* frame is the text without its leading and trailing spaces; it is the text
\* itself exactly when the text neither begins nor ends with a space.
C17_RoundTripStripped ==
    (script = "codec" /\ pc = "c_done" /\ NoNewline(text)) =>
        /\ Trimmed(decoded)
        /\ \E i, j \in 0..Len(text) : text = Spaces(i) \o decoded \o Spaces(j)
        /\ decoded = text <=> Trimmed(text)

\* a text with a space inside and spaces around it has made the round trip
C17_Witness ==
    /\ script = "codec" /\ pc = "c_done"
    /\ text = <<" ", "a", " ">> /\ decoded = <<"a">>

\* the reads and writes of the two handshakes, in the order of the code
RegisterSteps == <<"read", "blank", "read", "nickname", "read">>
AuthorizeSteps == <<"read", "token", "read", "message">>

\* C18: on the connection of register the reads and writes happen in the
\* order read, empty line, read, nickname, read, and on the connection of
\* authorize in the order read, token, read (then the user's message); the
\* order is only ever extended at its end; register has a result parsed, and
\* authorize has an answer, only when all the steps before it have been taken.
C18_HandshakeOrder ==
    /\ [](script \in Senders =>
            /\ conn.opener = "register" => IsPrefix(conn.steps, RegisterSteps)
            /\ AuthorizeConn => IsPrefix(conn.steps, AuthorizeSteps)
            /\ (conn.opener = "register" /\ regResult = "Success")
                  => conn.steps = RegisterSteps
            /\ authResult \in {"Authorized", "Rejected"}
                  => AuthorizeConn /\ IsPrefix(<<"read", "token", "read">>, conn.steps))
    /\ [][opened' = opened => IsPrefix(conn.steps, conn'.steps)]_vars

\* a run that registered has gone through the whole of authorize
C18_Witness ==
    /\ script \in Senders /\ regResult = "Success" /\ authResult = "Authorized"
    /\ AuthorizeConn /\ conn.steps = AuthorizeSteps

\* the line the server sent as its answer
ServerResultLine == conn.result[1]

\* the read that follows the nickname or the token has returned, and the
\* server had answered with one line
ResultRead ==
    /\ script \in Senders
    /\ \/ RegistrarEnded /\ Len(conn.steps) = Len(RegisterSteps)
       \/ AuthorizeConn /\ Len(conn.steps) >= 3
    /\ Len(conn.result) = 1

\* C19 (as claimed): however the server's bytes are cut into reads, the line
\* register or authorize parses is the line the server sent as its answer.
C19_ParsesTheResultLine ==
    ResultRead => ResponseLine = ServerResultLine

\* the ways a sender run is said to end
TerminalOutcomes ==
    {"sent", "no_credentials", "registration_failed", "authorization_failed", "send_failed"}

\* C20 (as claimed): every sender run comes to an end; a run that was not
\* cancelled ends as sent, configuration failure, registration failure,
\* authorization failure or transmit error; the user's message is written at
\* most once, and not at all in a run that ends before the send.
C20_SenderTerminates ==
    /\ (script \in Senders) ~> (pc \in Ended)
    /\ [](script \in Senders =>
            /\ (pc \in Ended /\ outcome # "cancelled") => outcome \in TerminalOutcomes
            /\ Cardinality(Sent("message")) <= 1
            /\ outcome \in {"no_credentials", "registration_failed", "authorization_failed"}
                  => Sent("message") = {})

====
